---- MODULE Spec2Model ----
(***************************************************************************)
(* FirstLight: Fink alert stream -> N1 filter -> duplicate checks -> TNS.   *)
(*                                                                         *)
(* Real numbers (scores, magnitudes, arcseconds, days) are integers in     *)
(* tenths; NaN is not among the inputs.  A Python Optional value is a      *)
(* sequence: <<>> is None, <<v>> is the value v.                           *)
(***************************************************************************)
EXTENDS Integers, Sequences, FiniteSets, TLC

None == <<>>
Some(v) == <<v>>
IsNone(x) == x = <<>>
Val(x) == x[1]

(***************************************************************************)
(* Bounds of the inputs.  The thresholds are those of the n1 block of the  *)
(* YAML config (an input of the run); the alert values are taken around    *)
(* them so that every gate has a failing, an exactly-equal and a passing   *)
(* value.                                                                  *)
(***************************************************************************)
DrbMin == 8
RbFallbackMin == 6
MinSsdistnr == 50
MinDistpsnr1 == 20
MinPs1Mag == 170
MaxNmtchps == 5
MaxNdethist == 3
MaxDaysSinceNondet == 30
MinDeltaMag == 15
JdNow == 100

\* n1_hostless_fast.py:29,35,38: the "not computed" value of the distance
\* and magnitude fields.
Sentinel == -999

\* Number of pipeline processes started on the same Audit Store file.
NProcs == 2

\* Number of leading candidates of the submit list whose answers vary
\* independently in the client harness: for a probe, for a submission.
ProbeVaried == 2
SubmitVaried == 3

\* Greatest length of prv_candidates in the normalizer harness.
MaxPrv == 2

\* Greatest number of rows inserted in the store harness.
MaxStoreRows == 2

VARIABLES
    pc,           \* run_daemon, per process: where the process stands
    dry_run,      \* run_daemon, per process: the --dry-run flag of the run
    enabled,      \* run_daemon, per process: TNSConfig.enabled() of the run
    submit_url,   \* run_daemon, per process: the probed submit URL, or None
    status_url,   \* run_daemon, per process: the probed status URL, or None
    probe_posts,  \* per process: POSTs sent to the registry by this run's probe
    cur,          \* run_daemon, per process: the (topic, alert) last polled, or None
    alerts,       \* Audit Store: rows of table alerts
    decisions,    \* Audit Store: rows of table decisions
    tns_actions,  \* Audit Store: rows of table tns_actions
    f_phase,      \* filter harness: "input" before passes_n1 is applied, "done" after
    f_alert,      \* filter harness: the NormalizedAlert given to passes_n1
    f_cfg,        \* filter harness: the config given to passes_n1
    f_out,        \* filter harness: what passes_n1 returned
    h_phase,      \* call harness: "input" before the call is made, "done" after
    h_call,       \* call harness: the call (operation and its arguments)
    h_ret         \* call harness: what the call returned or raised

procVars == <<pc, dry_run, enabled, submit_url, status_url, probe_posts, cur>>
storeVars == <<alerts, decisions, tns_actions>>
filterVars == <<f_phase, f_alert, f_cfg, f_out>>
clientVars == <<h_phase, h_call, h_ret>>
vars == <<pc, dry_run, enabled, submit_url, status_url, probe_posts, cur,
          alerts, decisions, tns_actions, f_phase, f_alert, f_cfg, f_out,
          h_phase, h_call, h_ret>>

Procs == 1..NProcs

(***************************************************************************)
(* niches/n1_hostless_fast.py                                              *)
(***************************************************************************)
Reject(reason) == [ok |-> FALSE, reason |-> reason]

\* a.isdiffpos not in ("t", "1", True)
PositiveFlags == {"t", "1", "True"}

\* c.get("require_positive_diff", True)
RequirePositiveDiff(c) ==
    IF IsNone(c.require_positive_diff) THEN TRUE ELSE Val(c.require_positive_diff)

\* RbFail as it would be with strict comparisons against the thresholds.
RbFailStrict(a, c) ==
    LET drb_ok == ~IsNone(a.drb) /\ Val(a.drb) > c.drb_min
        rb_ok == IsNone(a.drb) /\ ~IsNone(a.rb) /\ Val(a.rb) > c.rb_fallback_min
    IN ~(drb_ok \/ rb_ok)

\* 1) Real/Bogus gate
RbFail(a, c) ==
    LET drb_ok == ~IsNone(a.drb) /\ Val(a.drb) >= c.drb_min
        rb_ok == IsNone(a.drb) /\ ~IsNone(a.rb) /\ Val(a.rb) >= c.rb_fallback_min
    IN ~(drb_ok \/ rb_ok)

\* 2) Positive subtraction
IsdiffposFail(a, c) ==
    RequirePositiveDiff(c) /\ (IsNone(a.isdiffpos) \/ Val(a.isdiffpos) \notin PositiveFlags)

\* Veto as it would be without the sentinel test.
VetoNoSentinel(x, min) == ~IsNone(x) /\ Val(x) < min

\* 3), 4): a veto on a distance or magnitude that is present and not the sentinel
Veto(x, min) == ~IsNone(x) /\ Val(x) # Sentinel /\ Val(x) < min

\* TooMany as it would be with an exclusive ceiling.
TooManyExclusive(n, max) == ~IsNone(n) /\ Val(n) >= max

\* 5), 6): a ceiling on a count that is present
TooMany(n, max) == ~IsNone(n) /\ Val(n) > max

\* 7) Recent non-detection
NoRecentNondet(a) ==
    IsNone(a.last_nondet_jd) \/ IsNone(a.last_nondet_lim) \/ IsNone(a.delta_mag_from_nondet)

\* passes_n1 as it would be with the crowding gate moved before the vetoes.
passes_n1_reordered(a, cfg) ==
    LET c == cfg.n1
        days == a.jd - Val(a.last_nondet_jd)
    IN IF RbFail(a, c) THEN Reject("rb_fail")
       ELSE IF IsdiffposFail(a, c) THEN Reject("isdiffpos_fail")
       ELSE IF TooMany(a.nmtchps, c.max_nmtchps) THEN Reject("crowded_field")
       ELSE IF Veto(a.ssdistnr, c.min_ssdistnr_arcsec) THEN Reject("sso_match")
       ELSE IF Veto(a.distpsnr1, c.min_distpsnr1_arcsec) THEN Reject("ps1_too_close")
       ELSE IF Veto(a.srmag1, c.min_ps1_mag) THEN Reject("ps1_too_bright")
       ELSE IF TooMany(a.ndethist, c.max_ndethist) THEN Reject("too_many_detections")
       ELSE IF NoRecentNondet(a) THEN Reject("no_recent_nondet")
       ELSE IF days < 0 THEN Reject("nondet_in_future")
       ELSE IF days > c.max_days_since_nondet THEN Reject("nondet_too_old")
       ELSE IF Val(a.delta_mag_from_nondet) < c.min_delta_mag_from_nondet
            THEN Reject("delta_mag_small")
       ELSE [ok |-> TRUE, reason |-> "pass"]

passes_n1(a, cfg) ==
    LET c == cfg.n1
        days == a.jd - Val(a.last_nondet_jd)
    IN IF RbFail(a, c) THEN Reject("rb_fail")
       ELSE IF IsdiffposFail(a, c) THEN Reject("isdiffpos_fail")
       ELSE IF Veto(a.ssdistnr, c.min_ssdistnr_arcsec) THEN Reject("sso_match")
       ELSE IF Veto(a.distpsnr1, c.min_distpsnr1_arcsec) THEN Reject("ps1_too_close")
       ELSE IF Veto(a.srmag1, c.min_ps1_mag) THEN Reject("ps1_too_bright")
       ELSE IF TooMany(a.nmtchps, c.max_nmtchps) THEN Reject("crowded_field")
       ELSE IF TooMany(a.ndethist, c.max_ndethist) THEN Reject("too_many_detections")
       ELSE IF NoRecentNondet(a) THEN Reject("no_recent_nondet")
       ELSE IF days < 0 THEN Reject("nondet_in_future")
       ELSE IF days > c.max_days_since_nondet THEN Reject("nondet_too_old")
       ELSE IF Val(a.delta_mag_from_nondet) < c.min_delta_mag_from_nondet
            THEN Reject("delta_mag_small")
       ELSE [ok |-> TRUE, reason |-> "pass"]

(***************************************************************************)
(* Python values.  A value that reaches a subscript or a conversion        *)
(* carries its type: a str and a dict answer x["candidate"] differently.   *)
(* A dict read only with .get(k) is a record of Optional values (a missing *)
(* key and a null read the same); the keys read with a default or with     *)
(* [k] are listed in "absent" when missing.                                *)
(***************************************************************************)
PyStr(s) == [type |-> "str", s |-> s]

Raised(e) == [raised |-> TRUE, error |-> e]
Returned(v) == [raised |-> FALSE, value |-> v]

\* float("nan"), the default of mag, magerr and limmag
NaN == [nan |-> TRUE, v |-> 0]
Float(v) == [nan |-> FALSE, v |-> v]

\* str(n) of the small observation identifiers of the inputs
DecimalDigits == <<"0", "1", "2", "3", "4", "5", "6", "7", "8", "9">>
Str(n) == DecimalDigits[n + 1]

(***************************************************************************)
(* pipeline/normalize.py                                                   *)
(***************************************************************************)
\* _last_nondet as it would be if it returned nondets[0] instead of max().
_last_nondet_first(prv_candidates, current_jd) ==
    LET qualifies(i) == /\ IsNone(prv_candidates[i].candid)
                        /\ ~IsNone(prv_candidates[i].jd)
                        /\ Val(prv_candidates[i].jd) < current_jd
        nondets == {i \in 1..Len(prv_candidates) : qualifies(i)}
        best == CHOOSE i \in nondets : \A j \in nondets : i <= j
    IN IF nondets = {} THEN None ELSE Some(prv_candidates[best])

\* _last_nondet as it would be without the jd < current_jd test of line 35.
_last_nondet_any_time(prv_candidates, current_jd) ==
    LET qualifies(i) == /\ IsNone(prv_candidates[i].candid)
                        /\ ~IsNone(prv_candidates[i].jd)
        nondets == {i \in 1..Len(prv_candidates) : qualifies(i)}
        best == CHOOSE i \in nondets :
                    \A j \in nondets :
                        \/ Val(prv_candidates[j].jd) < Val(prv_candidates[i].jd)
                        \/ Val(prv_candidates[j].jd) = Val(prv_candidates[i].jd) /\ i <= j
    IN IF nondets = {} THEN None ELSE Some(prv_candidates[best])

\* _last_nondet: the entries without candid, with a jd below current_jd;
\* max() returns the first of those with the greatest jd.
_last_nondet(prv_candidates, current_jd) ==
    LET qualifies(i) == /\ IsNone(prv_candidates[i].candid)
                        /\ ~IsNone(prv_candidates[i].jd)
                        /\ Val(prv_candidates[i].jd) < current_jd
        nondets == {i \in 1..Len(prv_candidates) : qualifies(i)}
        best == CHOOSE i \in nondets :
                    \A j \in nondets :
                        \/ Val(prv_candidates[j].jd) < Val(prv_candidates[i].jd)
                        \/ Val(prv_candidates[j].jd) = Val(prv_candidates[i].jd) /\ i <= j
    IN IF nondets = {} THEN None ELSE Some(prv_candidates[best])

\* c[k] followed by float(): raises on a missing key and on a null
Unreadable(c, k) == k \in c.absent \/ IsNone(c[k])

\* float(c.get(k, nan)) or int(c.get(k, 0)): raises on a null, not on a missing key
Unconvertible(c, k) == k \notin c.absent /\ IsNone(c[k])

\* Lines 50-52 as they would be with the operands of the subtraction swapped.
DeltaSwapped(last_nondet_lim, magpsf) ==
    IF ~IsNone(last_nondet_lim) /\ ~IsNone(magpsf)
    THEN Some(Val(magpsf) - Val(last_nondet_lim))
    ELSE None

\* Lines 50-52: delta, from the limit of the non-detection and c.get("magpsf")
Delta(last_nondet_lim, magpsf) ==
    IF ~IsNone(last_nondet_lim) /\ ~IsNone(magpsf)
    THEN Some(Val(last_nondet_lim) - Val(magpsf))
    ELSE None

normalize(alert, topic) ==
    IF alert.type # "dict" THEN Raised("TypeError")
    ELSE IF "candidate" \in alert.absent \/ "objectId" \in alert.absent
        THEN Raised("KeyError")
    ELSE IF IsNone(alert.candidate) THEN Raised("AttributeError")
    ELSE
      LET c == Val(alert.candidate)
      IN IF \E k \in {"jd", "ra", "dec"} : k \in c.absent THEN Raised("KeyError")
         ELSE IF \/ \E k \in {"jd", "ra", "dec"} : Unreadable(c, k)
                 \/ \E k \in {"fid", "magpsf", "sigmapsf", "diffmaglim"} : Unconvertible(c, k)
             THEN Raised("TypeError")
         ELSE
           LET nd == _last_nondet(alert.prv_candidates, Val(c.jd))
               last_nondet_jd == IF IsNone(nd) THEN None ELSE Val(nd).jd
               last_nondet_lim == IF IsNone(nd) THEN None ELSE Val(nd).diffmaglim
               magpsf == IF "magpsf" \in c.absent THEN None ELSE c.magpsf
               delta == Delta(last_nondet_lim, magpsf)
               orNaN(k) == IF k \in c.absent THEN NaN ELSE Float(Val(c[k]))
           IN Returned(
                [ object_id |-> alert.objectId,
                  candid |-> IF "candid" \in c.absent THEN ""
                             ELSE IF IsNone(c.candid) THEN "None"
                             ELSE Str(Val(c.candid)),
                  topic |-> topic,
                  ra |-> Val(c.ra),
                  dec |-> Val(c.dec),
                  jd |-> Val(c.jd),
                  fid |-> IF "fid" \in c.absent THEN 0 ELSE Val(c.fid),
                  mag |-> orNaN("magpsf"),
                  magerr |-> orNaN("sigmapsf"),
                  limmag |-> orNaN("diffmaglim"),
                  drb |-> c.drb,
                  rb |-> c.rb,
                  isdiffpos |-> c.isdiffpos,
                  ssdistnr |-> c.ssdistnr,
                  distpsnr1 |-> c.distpsnr1,
                  sgscore1 |-> c.sgscore1,
                  srmag1 |-> c.srmag1,
                  nmtchps |-> c.nmtchps,
                  ndethist |-> c.ndethist,
                  last_nondet_jd |-> last_nondet_jd,
                  last_nondet_lim |-> last_nondet_lim,
                  delta_mag_from_nondet |-> delta ])

(***************************************************************************)
(* The filter harness: passes_n1 applied to one NormalizedAlert and one    *)
(* config drawn from the bounded inputs.                                   *)
(***************************************************************************)
FilterAlerts ==
    [ jd : {JdNow},
      drb : {None, Some(DrbMin - 1), Some(DrbMin)},
      rb : {None, Some(RbFallbackMin - 1), Some(RbFallbackMin)},
      isdiffpos : {None, Some("t"), Some("1"), Some("f")},
      ssdistnr : {None, Some(Sentinel), Some(MinSsdistnr - 1), Some(MinSsdistnr)},
      distpsnr1 : {None, Some(Sentinel), Some(MinDistpsnr1 - 1), Some(MinDistpsnr1)},
      srmag1 : {None, Some(Sentinel), Some(MinPs1Mag - 1), Some(MinPs1Mag)},
      nmtchps : {None, Some(MaxNmtchps), Some(MaxNmtchps + 1)},
      ndethist : {None, Some(MaxNdethist), Some(MaxNdethist + 1)},
      last_nondet_jd : {None, Some(JdNow + 1), Some(JdNow),
                        Some(JdNow - MaxDaysSinceNondet),
                        Some(JdNow - MaxDaysSinceNondet - 1)},
      last_nondet_lim : {None, Some(200)},
      delta_mag_from_nondet : {None, Some(MinDeltaMag - 1), Some(MinDeltaMag)} ]

FilterCfgs ==
    [ n1 : [ drb_min : {DrbMin},
             rb_fallback_min : {RbFallbackMin},
             require_positive_diff : {None, Some(TRUE), Some(FALSE)},
             min_ssdistnr_arcsec : {MinSsdistnr},
             min_distpsnr1_arcsec : {MinDistpsnr1},
             min_ps1_mag : {MinPs1Mag},
             max_nmtchps : {MaxNmtchps},
             max_ndethist : {MaxNdethist},
             max_days_since_nondet : {MaxDaysSinceNondet},
             min_delta_mag_from_nondet : {MinDeltaMag} ] ]

NoResult == [ok |-> FALSE, reason |-> "none"]

\* The part of the state a harness does not use: no process, an empty store.
NoProcesses ==
    /\ pc = [p \in Procs |-> "stopped"]
    /\ dry_run = [p \in Procs |-> FALSE]
    /\ enabled = [p \in Procs |-> FALSE]
    /\ submit_url = [p \in Procs |-> None]
    /\ status_url = [p \in Procs |-> None]
    /\ probe_posts = [p \in Procs |-> 0]
    /\ cur = [p \in Procs |-> None]

EmptyStore ==
    /\ alerts = <<>>
    /\ decisions = <<>>
    /\ tns_actions = <<>>

FilterIdle ==
    /\ f_phase = "idle"
    /\ f_alert = None
    /\ f_cfg = None
    /\ f_out = NoResult

ClientIdle ==
    /\ h_phase = "idle"
    /\ h_call = None
    /\ h_ret = None

FilterInit ==
    /\ f_phase = "input"
    /\ f_alert \in FilterAlerts
    /\ f_cfg \in FilterCfgs
    /\ f_out = NoResult
    /\ NoProcesses
    /\ EmptyStore
    /\ ClientIdle

Evaluate ==
    /\ f_phase = "input"
    /\ f_out' = passes_n1(f_alert, f_cfg)
    /\ f_phase' = "done"
    /\ UNCHANGED <<f_alert, f_cfg, procVars, storeVars, clientVars>>

FilterNext == Evaluate

FilterSpec == FilterInit /\ [][FilterNext]_vars

(***************************************************************************)
(* tns/client.py: endpoint probing                                         *)
(***************************************************************************)
DEFAULT_ENDPOINT_CANDIDATES ==
    << "bulk-report", "bulk_report", "bulkreport", "bulk-report/upload",
       "bulk_report/upload", "bulk/at-report", "bulk/at_report", "bulk/at" >>

DEFAULT_STATUS_CANDIDATES ==
    << "bulk-report/status", "bulk_report/status", "bulkreport/status",
       "bulk-report/retrieve", "bulk_report/retrieve", "bulkreport/retrieve",
       "bulk-report/get", "bulk_report/get", "bulkreport/get" >>

Range(seq) == {seq[i] : i \in 1..Len(seq)}

\* What one POST comes back with: an exception of the transport, or a status
\* and a content type, the latter as the set of the substrings _try_post
\* looks for that it contains.
Exc == [exc |-> TRUE, status |-> 0, ct |-> {}]
Http(status, ct) == [exc |-> FALSE, status |-> status, ct |-> ct]

\* _try_post as it would be without the 405 test of lines 146-147.
_try_post_without_405(r) ==
    IF r.exc THEN FALSE
    ELSE IF r.status = 404 THEN FALSE
    ELSE IF "json" \in r.ct THEN TRUE
    ELSE IF "text/html" \in r.ct THEN FALSE
    ELSE TRUE

\* _try_post: whether the answer confirms the endpoint
_try_post(r) ==
    IF r.exc THEN FALSE
    ELSE IF r.status = 404 THEN FALSE
    ELSE IF r.status = 405 THEN FALSE
    ELSE IF "json" \in r.ct THEN TRUE
    ELSE IF "text/html" \in r.ct THEN FALSE
    ELSE TRUE

\* The loop of _probe_submit and of _probe_status: the first candidate whose
\* answer confirms it, and the number of POSTs sent to find it.
ProbeLoop(candidates, registry) ==
    LET confirmed == {i \in 1..Len(candidates) : _try_post(registry[candidates[i]])}
        first == CHOOSE i \in confirmed : \A j \in confirmed : i <= j
    IN IF confirmed = {} THEN [url |-> None, posts |-> Len(candidates)]
       ELSE [url |-> Some(candidates[first]), posts |-> first]

_probe_submit(registry) == ProbeLoop(DEFAULT_ENDPOINT_CANDIDATES, registry)

_probe_status(registry) == ProbeLoop(DEFAULT_STATUS_CANDIDATES, registry)

probe_endpoints(is_enabled, registry) ==
    IF ~is_enabled THEN Raised("RuntimeError")
    ELSE Returned([ submit_url |-> _probe_submit(registry).url,
                    status_url |-> _probe_status(registry).url,
                    posts |-> _probe_submit(registry).posts
                                  + _probe_status(registry).posts ])

(***************************************************************************)
(* tns/client.py: submission.  A URL is the candidate's path: api_url, the *)
(* same prefix of every URL of a client, is left out.                      *)
(***************************************************************************)
\* Truthiness of an Optional[str]: None and "" are false.
Truthy(x) == ~IsNone(x) /\ Val(x) # ""

\* last_err before any request: the empty dict
EmptyDict == [error |-> "", url |-> "", status_code |-> 0]

\* The dicts submit_at_report returns: the error of a disabled client, of a
\* transport exception, of an HTTP status, and the body of a 2xx response
\* (told apart by the URL and status of the response it was read from).
DisabledError == [error |-> "TNS disabled", url |-> "", status_code |-> 0]
ExcError(url) == [error |-> "EXC", url |-> url, status_code |-> 0]
StatusError(url, r) == [error |-> "", url |-> url, status_code |-> r.status]
Body(url, r) == [error |-> "", url |-> url, status_code |-> r.status]

\* The 400/422 test of line 206, as it would be with 422 forgotten.
EndpointRejectedNo422(r) == r.status = 400

\* Line 206: r.status_code in (400, 422)
EndpointRejected(r) == r.status \in {400, 422}

\* The 2xx test of line 203, as it would be with the upper limit included.
Is2xxInclusive(r) == r.status >= 200 /\ r.status <= 300

\* Line 203: r.status_code >= 200 and r.status_code < 300
Is2xx(r) == r.status >= 200 /\ r.status < 300

\* Lines 184-208: the loop over urls from position i on; posts is the
\* sequence of URLs a request was sent to so far.
RECURSIVE SubmitLoop(_, _, _, _, _)
SubmitLoop(urls, i, registry, last_err, posts) ==
    IF i > Len(urls) THEN [ok |-> FALSE, detail |-> last_err, posts |-> posts]
    ELSE LET url == urls[i]
             r == registry[url]
             sent == Append(posts, url)
         IN IF url = "" THEN SubmitLoop(urls, i + 1, registry, last_err, posts)
            ELSE IF r.exc THEN SubmitLoop(urls, i + 1, registry, ExcError(url), sent)
            ELSE IF Is2xx(r) THEN [ok |-> TRUE, detail |-> Body(url, r), posts |-> sent]
            ELSE IF EndpointRejected(r)
                 THEN [ok |-> FALSE, detail |-> StatusError(url, r), posts |-> sent]
            ELSE SubmitLoop(urls, i + 1, registry, StatusError(url, r), sent)

submit_at_report(is_enabled, pinned, registry) ==
    IF ~is_enabled THEN [ok |-> FALSE, detail |-> DisabledError, posts |-> <<>>]
    ELSE LET urls == IF Truthy(pinned) THEN <<Val(pinned)>>
                     ELSE DEFAULT_ENDPOINT_CANDIDATES
         IN SubmitLoop(urls, 1, registry, EmptyDict, <<>>)

(***************************************************************************)
(* The inputs of a run: the registry deployments a probe may meet and the  *)
(* messages the stream may deliver.                                        *)
(***************************************************************************)
RegistryPaths == Range(DEFAULT_ENDPOINT_CANDIDATES) \cup Range(DEFAULT_STATUS_CANDIDATES)

Registries ==
    { [path \in RegistryPaths |-> IF path \in live THEN yes ELSE no] :
        live \in { {}, {"bulk-report", "bulk-report/status"}, {"bulk_report"} },
        yes \in { Http(400, {"json"}), Http(200, {}) },
        no \in { Exc, Http(404, {"json"}), Http(200, {"text/html"}) } }

Topics == {"fink_early_sn_candidates_ztf"}
Objects == {"ZTF21abc", "ZTF21xyz"}

\* The prior non-detection of the inputs: half a day before the observation.
PrvNondet == [candid |-> None, jd |-> Some(JdNow - 5), diffmaglim |-> Some(200)]

\* A candidate that satisfies every gate of RunCfg.
GoodCandidate(candid) ==
    [ absent |-> {}, candid |-> Some(candid), jd |-> Some(JdNow), ra |-> Some(1234),
      dec |-> Some(-50), fid |-> Some(1), magpsf |-> Some(200 - MinDeltaMag - 5),
      sigmapsf |-> Some(1), diffmaglim |-> Some(205), drb |-> Some(DrbMin + 1),
      rb |-> None, isdiffpos |-> Some("t"), ssdistnr |-> None,
      distpsnr1 |-> Some(Sentinel), sgscore1 |-> None, srmag1 |-> Some(Sentinel),
      nmtchps |-> Some(MaxNmtchps - 3), ndethist |-> Some(MaxNdethist - 2) ]

Dict(objectId, candidate) ==
    [ type |-> "dict", absent |-> {}, objectId |-> objectId,
      candidate |-> Some(candidate), prv_candidates |-> <<PrvNondet>> ]

RawAlerts ==
    \* well-formed, passing every gate
    { Dict(o, GoodCandidate(candid)) : o \in Objects, candid \in {1, 2} }
    \* well-formed, failing the real/bogus gate
    \cup { Dict(o, [GoodCandidate(3) EXCEPT !.drb = Some(DrbMin - 1)]) : o \in Objects }
    \* without jd
    \cup { Dict(o, [GoodCandidate(4) EXCEPT !.absent = {"jd"}, !.jd = None]) : o \in Objects }
    \* without candidate record
    \cup { [Dict(o, GoodCandidate(5)) EXCEPT !.absent = {"candidate"}, !.candidate = None] :
             o \in Objects }

Messages == [topic : {PyStr(t) : t \in Topics}, alert : RawAlerts]

\* The config the runs load.
RunCfg ==
    [ n1 |-> [ drb_min |-> DrbMin, rb_fallback_min |-> RbFallbackMin,
               require_positive_diff |-> Some(TRUE),
               min_ssdistnr_arcsec |-> MinSsdistnr,
               min_distpsnr1_arcsec |-> MinDistpsnr1, min_ps1_mag |-> MinPs1Mag,
               max_nmtchps |-> MaxNmtchps, max_ndethist |-> MaxNdethist,
               max_days_since_nondet |-> MaxDaysSinceNondet,
               min_delta_mag_from_nondet |-> MinDeltaMag ] ]

(***************************************************************************)
(* The client harness: one call of probe_endpoints or of submit_at_report  *)
(* on a client and a registry drawn from the bounded inputs.  The answers  *)
(* of the first ProbeVaried (SubmitVaried) candidates vary independently,  *)
(* the later candidates of a list all give the same answer.                *)
(***************************************************************************)
Index(seq, x) == CHOOSE i \in 1..Len(seq) : seq[i] = x

ProbeAnswers ==
    { Exc, Http(404, {"json"}), Http(405, {}), Http(200, {"text/html"}),
      Http(400, {"json"}), Http(200, {}) }

ProbeRegistries ==
    { [path \in RegistryPaths |->
          IF path \in Range(DEFAULT_ENDPOINT_CANDIDATES)
          THEN IF Index(DEFAULT_ENDPOINT_CANDIDATES, path) <= ProbeVaried
               THEN lead[Index(DEFAULT_ENDPOINT_CANDIDATES, path)]
               ELSE rest_submit
          ELSE IF Index(DEFAULT_STATUS_CANDIDATES, path) = 1 THEN first_status
               ELSE rest_status] :
        lead \in [1..ProbeVaried -> ProbeAnswers], rest_submit \in ProbeAnswers,
        first_status \in ProbeAnswers, rest_status \in ProbeAnswers }

SubmitAnswers ==
    { Exc, Http(200, {"json"}), Http(299, {}), Http(300, {}), Http(400, {"json"}),
      Http(422, {"json"}), Http(500, {"text/html"}) }

SubmitRegistries ==
    { [path \in RegistryPaths |->
          IF path \in Range(DEFAULT_ENDPOINT_CANDIDATES)
             /\ Index(DEFAULT_ENDPOINT_CANDIDATES, path) <= SubmitVaried
          THEN lead[Index(DEFAULT_ENDPOINT_CANDIDATES, path)]
          ELSE rest] :
        lead \in [1..SubmitVaried -> SubmitAnswers], rest \in SubmitAnswers }

\* submit_url as run_daemon passes it (None, or a probed URL), and "".
PinnedUrls == {None, Some(""), Some(DEFAULT_ENDPOINT_CANDIDATES[2])}

ProbeCalls ==
    [ op : {"probe_endpoints"}, enabled : BOOLEAN, submit_url : {None},
      registry : ProbeRegistries ]

SubmitCalls ==
    [ op : {"submit_at_report"}, enabled : BOOLEAN, submit_url : PinnedUrls,
      registry : SubmitRegistries ]

ClientInit ==
    /\ h_phase = "input"
    /\ h_call \in ProbeCalls \cup SubmitCalls
    /\ h_ret = None
    /\ NoProcesses
    /\ EmptyStore
    /\ FilterIdle

CallProbe ==
    /\ h_phase = "input"
    /\ h_call.op = "probe_endpoints"
    /\ h_ret' = Some(probe_endpoints(h_call.enabled, h_call.registry))
    /\ h_phase' = "done"
    /\ UNCHANGED <<h_call, procVars, storeVars, filterVars>>

CallSubmit ==
    /\ h_phase = "input"
    /\ h_call.op = "submit_at_report"
    /\ h_ret' = Some(submit_at_report(h_call.enabled, h_call.submit_url, h_call.registry))
    /\ h_phase' = "done"
    /\ UNCHANGED <<h_call, procVars, storeVars, filterVars>>

ClientNext == CallProbe \/ CallSubmit

ClientSpec == ClientInit /\ [][ClientNext]_vars

(***************************************************************************)
(* The normalizer harness: normalize applied, with its parameters in the   *)
(* order of its signature, to an alert drawn from the bounded inputs, and  *)
(* passes_n1 applied to the NormalizedAlert it returns (as the script      *)
(* run_once_from_avro_dir.py does).  The history holds up to MaxPrv        *)
(* entries: detections and non-detections, before, at and after the        *)
(* current observation, with and without a limiting magnitude.             *)
(***************************************************************************)
PrvEntries ==
    [ candid : {None, Some(7)},
      jd : {None, Some(JdNow - 5), Some(JdNow - 2), Some(JdNow), Some(JdNow + 1)},
      diffmaglim : {None, Some(200), Some(190)} ]

PrvLists == UNION {[1..n -> PrvEntries] : n \in 0..MaxPrv}

NormCandidates ==
    \* magpsf present: one that makes the jump from a limit of 200 large enough
    \* for RunCfg, one that does not
    { [GoodCandidate(1) EXCEPT !.magpsf = Some(mag)] :
          mag \in {200 - MinDeltaMag - 5, 200 - MinDeltaMag + 3} }
    \* magpsf missing
    \cup { [GoodCandidate(1) EXCEPT !.absent = {"magpsf"}, !.magpsf = None] }
    \* jd missing
    \cup { [GoodCandidate(1) EXCEPT !.absent = {"jd"}, !.jd = None] }

NormAlerts ==
    { [Dict(o, c) EXCEPT !.prv_candidates = prv] :
          o \in {"ZTF21abc"}, c \in NormCandidates, prv \in PrvLists }

NormCalls == [op : {"normalize"}, alert : NormAlerts, topic : Topics]

NormInit ==
    /\ h_phase = "input"
    /\ h_call \in NormCalls
    /\ h_ret = None
    /\ NoProcesses
    /\ EmptyStore
    /\ FilterIdle

CallNormalize ==
    /\ h_phase = "input"
    /\ h_call.op = "normalize"
    /\ h_ret' = Some(normalize(h_call.alert, h_call.topic))
    /\ h_phase' = "normalized"
    /\ UNCHANGED <<h_call, procVars, storeVars, filterVars>>

\* run_once_from_avro_dir.py:37-38: the filter on what normalize returned
FilterNormalized ==
    /\ h_phase = "normalized"
    /\ ~Val(h_ret).raised
    /\ f_alert' = Val(h_ret).value
    /\ f_cfg' = RunCfg
    /\ f_out' = passes_n1(Val(h_ret).value, RunCfg)
    /\ f_phase' = "done"
    /\ h_phase' = "done"
    /\ UNCHANGED <<h_call, h_ret, procVars, storeVars>>

NormNext == CallNormalize \/ FilterNormalized

NormSpec == NormInit /\ [][NormNext]_vars

(***************************************************************************)
(* storage/db.py: the methods of DB on the three tables.  A row carries    *)
(* its AUTOINCREMENT id and the columns the callers supply; the *_utc      *)
(* columns (the clock at the insert) and the JSON columns are left out.    *)
(* Each method commits before it returns, so the tables are the durable    *)
(* content of the file.                                                    *)
(***************************************************************************)
\* was_submitted_or_skipped as it would be if it asked for a successful submit.
was_submitted_ok(rows, object_id) ==
    \E i \in 1..Len(rows) :
        /\ rows[i].object_id = object_id
        /\ rows[i].action = "submit"
        /\ rows[i].outcome = "ok"

\* SELECT 1 FROM tns_actions WHERE object_id=? AND action='submit' LIMIT 1
was_submitted_or_skipped(rows, object_id) ==
    \E i \in 1..Len(rows) : rows[i].object_id = object_id /\ rows[i].action = "submit"

\* The store harness: any caller of DB, making up to MaxStoreRows inserts and
\* any number of queries and re-openings of the file.
Candids == {"1", "2"}
Details == {"resolver_no_match", "dry_run"}

StoreInit ==
    /\ EmptyStore
    /\ h_phase = "db"
    /\ h_call = [op |-> "open"]
    /\ h_ret = None
    /\ NoProcesses
    /\ FilterIdle

StoreRows == Len(alerts) + Len(decisions) + Len(tns_actions)

\* DB.__init__: CREATE TABLE IF NOT EXISTS on a file that may hold rows
Open ==
    /\ h_phase = "db"
    /\ h_call' = [op |-> "open"]
    /\ h_ret' = None
    /\ UNCHANGED <<h_phase, procVars, storeVars, filterVars>>

add_alert(object_id, candid, topic, emitted_jd) ==
    /\ h_phase = "db"
    /\ StoreRows < MaxStoreRows
    /\ alerts' = Append(alerts, [ id |-> Len(alerts) + 1, object_id |-> object_id,
                                  candid |-> candid, topic |-> topic,
                                  emitted_jd |-> emitted_jd ])
    /\ h_call' = [op |-> "add_alert"]
    /\ h_ret' = None
    /\ UNCHANGED <<h_phase, decisions, tns_actions, procVars, filterVars>>

add_decision(object_id, candid, topic, passed, reason) ==
    /\ h_phase = "db"
    /\ StoreRows < MaxStoreRows
    /\ decisions' = Append(decisions,
                           [ id |-> Len(decisions) + 1, object_id |-> object_id,
                             candid |-> candid, topic |-> topic,
                             passed |-> IF passed THEN 1 ELSE 0, reason |-> reason ])
    /\ h_call' = [op |-> "add_decision"]
    /\ h_ret' = None
    /\ UNCHANGED <<h_phase, alerts, tns_actions, procVars, filterVars>>

\* tns_log as it would be with INSERT OR REPLACE keyed on object, candid and
\* action: a second row of the same key takes the place of the first.
tns_log_replacing(object_id, candid, action, outcome, detail) ==
    LET row == [ id |-> Len(tns_actions) + 1, object_id |-> object_id,
                 candid |-> candid, action |-> action, outcome |-> outcome,
                 detail |-> detail ]
        same == {i \in 1..Len(tns_actions) :
                    /\ tns_actions[i].object_id = object_id
                    /\ tns_actions[i].candid = candid
                    /\ tns_actions[i].action = action}
    IN /\ h_phase = "db"
       /\ StoreRows < MaxStoreRows
       /\ tns_actions' = IF same = {} THEN Append(tns_actions, row)
                         ELSE [i \in 1..Len(tns_actions) |->
                                  IF i \in same THEN [row EXCEPT !.id = i]
                                  ELSE tns_actions[i]]
       /\ h_call' = [op |-> "tns_log"]
       /\ h_ret' = None
       /\ UNCHANGED <<h_phase, alerts, decisions, procVars, filterVars>>

tns_log(object_id, candid, action, outcome, detail) ==
    /\ h_phase = "db"
    /\ StoreRows < MaxStoreRows
    /\ tns_actions' = Append(tns_actions,
                             [ id |-> Len(tns_actions) + 1, object_id |-> object_id,
                               candid |-> candid, action |-> action,
                               outcome |-> outcome, detail |-> detail ])
    /\ h_call' = [op |-> "tns_log"]
    /\ h_ret' = None
    /\ UNCHANGED <<h_phase, alerts, decisions, procVars, filterVars>>

Query(object_id) ==
    /\ h_phase = "db"
    /\ h_call' = [op |-> "was_submitted_or_skipped", object_id |-> object_id]
    /\ h_ret' = Some(was_submitted_or_skipped(tns_actions, object_id))
    /\ UNCHANGED <<h_phase, procVars, storeVars, filterVars>>

StoreNext ==
    \/ Open
    \/ \E o \in Objects, c \in Candids, t \in Topics : add_alert(o, c, t, JdNow)
    \/ \E o \in Objects, c \in Candids, t \in Topics, passed \in BOOLEAN :
           add_decision(o, c, t, passed, IF passed THEN "pass" ELSE "rb_fail")
    \/ \E o \in Objects, c \in Candids, action \in {"check", "submit"},
          outcome \in {"skip", "ok", "error"}, d \in Details :
           tns_log(o, c, action, outcome, d)
    \/ \E o \in Objects : Query(o)

StoreSpec == StoreInit /\ [][StoreNext]_vars

(***************************************************************************)
(* pipeline/runner.py: run_daemon, one process per element of Procs, all   *)
(* on the same Audit Store.  A process may be killed at any point and      *)
(* started again; the store outlives it.                                   *)
(***************************************************************************)
Init ==
    /\ NoProcesses
    /\ EmptyStore
    /\ FilterIdle
    /\ ClientIdle

\* Lines 35-48: the process starts; cfg, db and tns are built, no URL is known.
Launch(p) ==
    /\ pc[p] = "stopped"
    /\ \E d \in BOOLEAN, e \in BOOLEAN :
          /\ dry_run' = [dry_run EXCEPT ![p] = d]
          /\ enabled' = [enabled EXCEPT ![p] = e]
    /\ submit_url' = [submit_url EXCEPT ![p] = None]
    /\ status_url' = [status_url EXCEPT ![p] = None]
    /\ probe_posts' = [probe_posts EXCEPT ![p] = 0]
    /\ cur' = [cur EXCEPT ![p] = None]
    /\ pc' = [pc EXCEPT ![p] = "startup"]
    /\ UNCHANGED <<storeVars, filterVars, clientVars>>

\* Lines 49-62: the probe, once, only when the run intends to submit.
Probe(p) ==
    /\ pc[p] = "startup"
    /\ ~dry_run[p] /\ enabled[p]
    /\ \E registry \in Registries :
          LET probe == probe_endpoints(enabled[p], registry)
          IN IF probe.raised
             THEN UNCHANGED <<submit_url, status_url, probe_posts>>
             ELSE /\ submit_url' = [submit_url EXCEPT ![p] = probe.value.submit_url]
                  /\ status_url' = [status_url EXCEPT ![p] = probe.value.status_url]
                  /\ probe_posts' = [probe_posts EXCEPT ![p] = probe.value.posts]
    /\ pc' = [pc EXCEPT ![p] = "connect"]
    /\ UNCHANGED <<dry_run, enabled, cur, storeVars, filterVars, clientVars>>

\* Line 49, the other branch: dry-run or no credentials, no probe.
SkipProbe(p) ==
    /\ pc[p] = "startup"
    /\ dry_run[p] \/ ~enabled[p]
    /\ pc' = [pc EXCEPT ![p] = "connect"]
    /\ UNCHANGED <<dry_run, enabled, submit_url, status_url, probe_posts, cur,
                   storeVars, filterVars, clientVars>>

\* Lines 64-70: the Fink credentials file is read and the consumer built; a
\* missing file raises out of run_daemon.
Connect(p) ==
    /\ pc[p] = "connect"
    /\ \E credentials_exist \in BOOLEAN :
          pc' = [pc EXCEPT ![p] = IF credentials_exist THEN "poll" ELSE "stopped"]
    /\ UNCHANGED <<dry_run, enabled, submit_url, status_url, probe_posts, cur,
                   storeVars, filterVars, clientVars>>

\* Lines 73-75: the poll times out, the loop polls again.
PollTimeout(p) ==
    /\ pc[p] = "poll"
    /\ UNCHANGED vars

\* PollAlert as it would be if the loop probed again for each message.
PollAlertReprobes(p) ==
    /\ pc[p] = "poll"
    /\ \E m \in Messages : cur' = [cur EXCEPT ![p] = Some(m)]
    /\ \E registry \in Registries :
          LET probe == probe_endpoints(TRUE, registry)
          IN /\ submit_url' = [submit_url EXCEPT ![p] = probe.value.submit_url]
             /\ status_url' = [status_url EXCEPT ![p] = probe.value.status_url]
             /\ probe_posts' = [probe_posts EXCEPT ![p] = @ + probe.value.posts]
    /\ pc' = [pc EXCEPT ![p] = "received"]
    /\ UNCHANGED <<dry_run, enabled, storeVars, filterVars, clientVars>>

\* Line 73: the poll delivers a message.
PollAlert(p) ==
    /\ pc[p] = "poll"
    /\ \E m \in Messages : cur' = [cur EXCEPT ![p] = Some(m)]
    /\ pc' = [pc EXCEPT ![p] = "received"]
    /\ UNCHANGED <<dry_run, enabled, submit_url, status_url, probe_posts,
                   storeVars, filterVars, clientVars>>

\* Lines 77-82: normalize is called with (topic, alert), its parameters are
\* (alert, topic); when it raises the alert is logged and dropped.
NormalizeFailed(p) ==
    /\ pc[p] = "received"
    /\ normalize(Val(cur[p]).topic, Val(cur[p]).alert).raised
    /\ pc' = [pc EXCEPT ![p] = "poll"]
    /\ UNCHANGED <<dry_run, enabled, submit_url, status_url, probe_posts, cur,
                   storeVars, filterVars, clientVars>>

\* The process is killed; what it held in memory is gone, the store stays.
Crash(p) ==
    /\ pc[p] # "stopped"
    /\ pc' = [pc EXCEPT ![p] = "stopped"]
    /\ UNCHANGED <<dry_run, enabled, submit_url, status_url, probe_posts, cur,
                   storeVars, filterVars, clientVars>>

Next ==
    \E p \in Procs :
        \/ Launch(p)
        \/ Probe(p)
        \/ SkipProbe(p)
        \/ Connect(p)
        \/ PollTimeout(p)
        \/ PollAlert(p)
        \/ NormalizeFailed(p)
        \/ Crash(p)

Spec == Init /\ [][Next]_vars

\* run_daemon as the only process on its store.
SoloNext ==
    \/ Launch(1)
    \/ Probe(1)
    \/ SkipProbe(1)
    \/ Connect(1)
    \/ PollTimeout(1)
    \/ PollAlert(1)
    \/ NormalizeFailed(1)
    \/ Crash(1)

SoloSpec == Init /\ [][SoloNext]_vars

\* Lines 84-179 are not among the actions: no message gets past line 79.
\* Every call of normalize that run_daemon makes raises.
NormalizeAlwaysRaises ==
    \A p \in Procs :
        pc[p] = "received" => normalize(Val(cur[p]).topic, Val(cur[p]).alert).raised

(***************************************************************************)
(* The gate policies of the filter table, stated apart from passes_n1.     *)
(* A veto (3-5) binds a value that is present and not -999; a ceiling      *)
(* (6, 7) binds a count that is present; a qualifying non-detection (8)    *)
(* is one whose time, limit and magnitude jump are all present.            *)
(***************************************************************************)
GateReasons ==
    << "rb_fail", "isdiffpos_fail", "sso_match", "ps1_too_close", "ps1_too_bright",
       "crowded_field", "too_many_detections", "no_recent_nondet", "nondet_in_future",
       "nondet_too_old", "delta_mag_small" >>

Present(x) == x # None
Informative(x) == Present(x) /\ Val(x) # Sentinel

GateSatisfied(i, a, c) ==
    CASE i = 1 -> \/ Present(a.drb) /\ Val(a.drb) >= c.drb_min
                  \/ ~Present(a.drb) /\ Present(a.rb) /\ Val(a.rb) >= c.rb_fallback_min
      [] i = 2 -> (c.require_positive_diff # Some(FALSE))
                      => (Present(a.isdiffpos) /\ Val(a.isdiffpos) \in {"t", "1", "True"})
      [] i = 3 -> Informative(a.ssdistnr) => Val(a.ssdistnr) >= c.min_ssdistnr_arcsec
      [] i = 4 -> Informative(a.distpsnr1) => Val(a.distpsnr1) >= c.min_distpsnr1_arcsec
      [] i = 5 -> Informative(a.srmag1) => Val(a.srmag1) >= c.min_ps1_mag
      [] i = 6 -> Present(a.nmtchps) => Val(a.nmtchps) <= c.max_nmtchps
      [] i = 7 -> Present(a.ndethist) => Val(a.ndethist) <= c.max_ndethist
      [] i = 8 -> Present(a.last_nondet_jd) /\ Present(a.last_nondet_lim)
                      /\ Present(a.delta_mag_from_nondet)
      [] i = 9 -> Present(a.last_nondet_jd) => a.jd - Val(a.last_nondet_jd) >= 0
      [] i = 10 -> Present(a.last_nondet_jd)
                      => a.jd - Val(a.last_nondet_jd) <= c.max_days_since_nondet
      [] i = 11 -> Present(a.delta_mag_from_nondet)
                      => Val(a.delta_mag_from_nondet) >= c.min_delta_mag_from_nondet

ViolatedGates(a, cfg) == {i \in 1..11 : ~GateSatisfied(i, a, cfg.n1)}

First(S) == CHOOSE i \in S : \A j \in S : i <= j

\* C5: whenever an alert violates some gate, the reason passes_n1 returns is
\* the reason code of the first violated gate in the table's order, whatever
\* the later gates say.
C5_FirstFailingGateDecides ==
    f_phase = "done"
        => LET violated == ViolatedGates(f_alert, f_cfg)
           IN violated # {}
                  => /\ ~f_out.ok
                     /\ f_out.reason = GateReasons[First(violated)]

\* C5 witness: an evaluated alert that violates the solar-system veto and two
\* later gates, and is rejected.
C5_Witness ==
    /\ f_phase = "done"
    /\ {3, 6, 11} \subseteq ViolatedGates(f_alert, f_cfg)
    /\ First(ViolatedGates(f_alert, f_cfg)) = 3
    /\ ~f_out.ok

\* C6: passes_n1 accepts exactly the alerts that satisfy all eleven gates, and
\* gives them the reason pass.
C6_AcceptedIffAllGatesSatisfied ==
    f_phase = "done"
        => /\ f_out.ok <=> ViolatedGates(f_alert, f_cfg) = {}
           /\ f_out.ok => f_out.reason = "pass"

\* C6 witness: an evaluated alert that satisfies every gate with its counts
\* exactly at their ceilings, and is accepted.
C6_Witness ==
    /\ f_phase = "done"
    /\ ViolatedGates(f_alert, f_cfg) = {}
    /\ f_alert.nmtchps = Some(MaxNmtchps)
    /\ f_alert.ndethist = Some(MaxNdethist)
    /\ f_out.ok

SentinelOrAbsent(x) == x = None \/ x = Some(Sentinel)

\* C7: a solar-system distance, catalog distance or catalog magnitude that is
\* -999 or absent never produces the reason of its veto gate.
C7_SentinelNeverVetoes ==
    f_phase = "done"
        => /\ SentinelOrAbsent(f_alert.ssdistnr) => f_out.reason # "sso_match"
           /\ SentinelOrAbsent(f_alert.distpsnr1) => f_out.reason # "ps1_too_close"
           /\ SentinelOrAbsent(f_alert.srmag1) => f_out.reason # "ps1_too_bright"

\* C7 witness: an evaluated alert whose three veto fields all hold -999 and
\* which got past the vetoes to the crowding gate.
C7_Witness ==
    /\ f_phase = "done"
    /\ f_alert.ssdistnr = Some(Sentinel)
    /\ f_alert.distpsnr1 = Some(Sentinel)
    /\ f_alert.srmag1 = Some(Sentinel)
    /\ f_out.reason = "crowded_field"

(***************************************************************************)
(* What the orchestrator owes a message, read off the store once the loop  *)
(* is back at the poll.                                                    *)
(***************************************************************************)
\* The process has finished with the message it polled last.
Handled(p) == pc[p] = "poll" /\ cur[p] # None

\* normalize applied to the message as its signature asks: (alert, topic)
Normalized(m) == normalize(m.alert, m.topic.s)

WellFormed(m) == ~Normalized(m).raised

Decision(m) == passes_n1(Normalized(m).value, RunCfg)

PassesFilter(m) == WellFormed(m) /\ Decision(m).ok

\* The positions in tns_actions of the rows of a kind for one observation.
ActionRows(m, action) ==
    {i \in 1..Len(tns_actions) :
        /\ tns_actions[i].object_id = Normalized(m).value.object_id
        /\ tns_actions[i].candid = Normalized(m).value.candid
        /\ tns_actions[i].action = action}

DecisionRows(m) ==
    {i \in 1..Len(decisions) :
        /\ decisions[i].object_id = Normalized(m).value.object_id
        /\ decisions[i].candid = Normalized(m).value.candid}

\* C4: in a run that is not dry, has credentials and probed a submit URL, a
\* polled alert that is well-formed and passes the filter, and for which no
\* duplicate was recorded (no check/skip row), has a submit action logged by
\* the time the loop polls again.
C4_HappyPathEndsInLoggedSubmit ==
    \A p \in Procs :
        LET m == Val(cur[p])
        IN (/\ Handled(p)
            /\ ~dry_run[p] /\ enabled[p] /\ submit_url[p] # None
            /\ PassesFilter(m)
            /\ \A i \in ActionRows(m, "check") : tns_actions[i].outcome # "skip")
               => ActionRows(m, "submit") # {}

\* C8: for a handled alert that passes the filter, the store holds a check
\* row for the local duplicate check and one for the remote lookup, both
\* before any submit row of that alert.
C8_BothChecksRecordedBeforeSubmit ==
    \A p \in Procs :
        LET m == Val(cur[p])
        IN (Handled(p) /\ PassesFilter(m))
               => /\ Cardinality(ActionRows(m, "check")) >= 2
                  /\ \A s \in ActionRows(m, "submit") :
                         Cardinality({i \in ActionRows(m, "check") : i < s}) >= 2

\* C9: for a handled alert that passes the filter and was not stopped by the
\* local duplicate check, the outcome of the remote lookup is on record: a
\* check/ok row (no match, or any failure of the lookup) or a check/skip row
\* (a match); the lookup never ends the handling without either.
C9_LookupOutcomeRecorded ==
    \A p \in Procs :
        LET m == Val(cur[p])
        IN (/\ Handled(p)
            /\ PassesFilter(m)
            /\ \A i \in ActionRows(m, "check") :
                   tns_actions[i].detail # "already_submitted_or_checked_in_db")
               => \E i \in ActionRows(m, "check") :
                      \/ tns_actions[i].outcome = "ok"
                             /\ tns_actions[i].detail = "resolver_no_match"
                      \/ tns_actions[i].outcome = "skip"
                             /\ tns_actions[i].detail = "resolver_found_tns"

\* C10: for a handled alert that normalizes, the store holds its decision,
\* with the filter's verdict and reason, and no registry action of that alert
\* without it.
C10_DecisionRecorded ==
    \A p \in Procs :
        LET m == Val(cur[p])
        IN (Handled(p) /\ WellFormed(m))
               => \E i \in DecisionRows(m) :
                      /\ (decisions[i].passed = 1) <=> Decision(m).ok
                      /\ decisions[i].reason = Decision(m).reason

\* C11: a handled alert that normalizes and fails the filter has its fail
\* decision in the store and no registry action at all, neither a check nor
\* a submit.
C11_FailStopsAfterDecisionLogged ==
    \A p \in Procs :
        LET m == Val(cur[p])
        IN (Handled(p) /\ WellFormed(m) /\ ~Decision(m).ok)
               => /\ \E i \in DecisionRows(m) :
                         /\ decisions[i].passed = 0
                         /\ decisions[i].reason = Decision(m).reason
                  /\ ActionRows(m, "check") = {}
                  /\ ActionRows(m, "submit") = {}

(***************************************************************************)
(* The submission protocol, stated apart from submit_at_report.            *)
(***************************************************************************)
SubmitDone == h_phase = "done" /\ h_call.op = "submit_at_report"

\* The caller pinned a URL: submit_url is given and not empty.
Pinned(call) == call.submit_url # None /\ call.submit_url # Some("")

Answer(call, url) == call.registry[url]
Answered2xx(r) == ~r.exc /\ r.status \in 200..299
AnsweredRejection(r) == ~r.exc /\ (r.status = 400 \/ r.status = 422)

\* The URLs the protocol allows the call to contact, in order.
Allowed(call) ==
    IF Pinned(call) THEN <<Val(call.submit_url)>> ELSE DEFAULT_ENDPOINT_CANDIDATES

\* The positions of Allowed(call) whose answer ends the submission.
Ending(call) ==
    {i \in 1..Len(Allowed(call)) :
        \/ Answered2xx(Answer(call, Allowed(call)[i]))
        \/ AnsweredRejection(Answer(call, Allowed(call)[i]))}

\* C12: in a submission with credentials and no pinned URL, a contacted
\* candidate that answers 400 or 422 is the last one contacted and the
\* result is failure, whatever the candidates after it would answer.
C12_RejectionStopsRotation ==
    (SubmitDone /\ h_call.enabled /\ ~Pinned(h_call))
        => LET ret == Val(h_ret)
           IN \A i \in 1..Len(ret.posts) :
                  AnsweredRejection(Answer(h_call, ret.posts[i]))
                      => /\ ~ret.ok
                         /\ i = Len(ret.posts)
                         /\ ret.posts = SubSeq(DEFAULT_ENDPOINT_CANDIDATES, 1, i)

\* C12 witness: an unpinned submission whose first candidate fails in
\* transport and whose second answers 422, while every later candidate would
\* have answered 200; two requests were sent and the result is failure.
C12_Witness ==
    /\ SubmitDone /\ h_call.enabled /\ h_call.submit_url = None
    /\ Answer(h_call, DEFAULT_ENDPOINT_CANDIDATES[1]).exc
    /\ Answer(h_call, DEFAULT_ENDPOINT_CANDIDATES[2]) = Http(422, {"json"})
    /\ \A i \in 3..Len(DEFAULT_ENDPOINT_CANDIDATES) :
           Answer(h_call, DEFAULT_ENDPOINT_CANDIDATES[i]) = Http(200, {"json"})
    /\ Len(Val(h_ret).posts) = 2
    /\ ~Val(h_ret).ok

\* C13: a submission with credentials contacts the allowed URLs in order up
\* to the first that answers 2xx, 400 or 422 and no further; it succeeds
\* exactly when that answer is 2xx; when no answer ends it, every allowed URL
\* was contacted and the failure carries the error of the last one; with a
\* pinned URL exactly one request is sent, to that URL.
C13_Rotation ==
    (SubmitDone /\ h_call.enabled)
        => LET ret == Val(h_ret)
               urls == Allowed(h_call)
               ending == Ending(h_call)
               n == IF ending = {} THEN Len(urls) ELSE First(ending)
               last == Answer(h_call, urls[n])
           IN /\ ret.posts = SubSeq(urls, 1, n)
              /\ ret.ok <=> (ending # {} /\ Answered2xx(last))
              /\ ending = {}
                     => /\ ret.detail.url = urls[n]
                        /\ IF last.exc THEN ret.detail.error = "EXC"
                           ELSE ret.detail.status_code = last.status
              /\ Pinned(h_call) => ret.posts = <<Val(h_call.submit_url)>>

\* C13 witness: an unpinned submission that contacted all eight candidates,
\* the first failing in transport, the second answering 300, the last 500,
\* and failed with the error of the eighth.
C13_Witness ==
    /\ SubmitDone /\ h_call.enabled /\ h_call.submit_url = None
    /\ Answer(h_call, DEFAULT_ENDPOINT_CANDIDATES[1]).exc
    /\ Answer(h_call, DEFAULT_ENDPOINT_CANDIDATES[2]).status = 300
    /\ Val(h_ret).posts = DEFAULT_ENDPOINT_CANDIDATES
    /\ ~Val(h_ret).ok
    /\ Val(h_ret).detail = StatusError(DEFAULT_ENDPOINT_CANDIDATES[8],
                                       Http(500, {"text/html"}))

(***************************************************************************)
(* The probing protocol, stated apart from _try_post and the probe loops.  *)
(***************************************************************************)
ProbeDone == h_phase = "done" /\ h_call.op = "probe_endpoints"

\* A candidate is rejected when its request raised, when it answered 404 or
\* 405, or when it answered with a text/html content type; every other
\* answer is accepted.
ProbeRejects(r) == r.exc \/ r.status = 404 \/ r.status = 405 \/ "text/html" \in r.ct

AcceptedIn(candidates, registry) ==
    {i \in 1..Len(candidates) : ~ProbeRejects(registry[candidates[i]])}

FirstAccepted(candidates, registry) ==
    IF AcceptedIn(candidates, registry) = {} THEN None
    ELSE Some(candidates[First(AcceptedIn(candidates, registry))])

\* The number of candidates of a list the protocol probes.
Probed(candidates, registry) ==
    IF AcceptedIn(candidates, registry) = {} THEN Len(candidates)
    ELSE First(AcceptedIn(candidates, registry))

\* C14: a probe with credentials returns, for the submit list and for the
\* status list each on its own, the first candidate in list order whose
\* answer is accepted, or no URL when none is; it sends one request to each
\* candidate up to that one and none to the candidates after it.
C14_ProbeSelectsFirstAccepted ==
    (ProbeDone /\ h_call.enabled)
        => LET ret == Val(h_ret)
               registry == h_call.registry
           IN /\ ~ret.raised
              /\ ret.value.submit_url
                     = FirstAccepted(DEFAULT_ENDPOINT_CANDIDATES, registry)
              /\ ret.value.status_url
                     = FirstAccepted(DEFAULT_STATUS_CANDIDATES, registry)
              /\ ret.value.posts
                     = Probed(DEFAULT_ENDPOINT_CANDIDATES, registry)
                       + Probed(DEFAULT_STATUS_CANDIDATES, registry)

\* C14 witness: the first submit candidate answered 404, the second 400 with
\* JSON, and the probe returned the second; no status candidate was accepted,
\* so the probe sent two requests to the submit list and nine to the other.
C14_Witness ==
    /\ ProbeDone /\ h_call.enabled
    /\ h_call.registry[DEFAULT_ENDPOINT_CANDIDATES[1]] = Http(404, {"json"})
    /\ h_call.registry[DEFAULT_ENDPOINT_CANDIDATES[2]] = Http(400, {"json"})
    /\ Val(h_ret).value.submit_url = Some(DEFAULT_ENDPOINT_CANDIDATES[2])
    /\ Val(h_ret).value.status_url = None
    /\ Val(h_ret).value.posts = 2 + Len(DEFAULT_STATUS_CANDIDATES)

\* C15: whatever the client's configuration and whatever each candidate
\* answers, the probe returns a result and does not raise.
C15_ProbeNeverRaises ==
    ProbeDone => ~Val(h_ret).raised

(***************************************************************************)
(* The orchestrator and the registry.                                      *)
(***************************************************************************)
\* No duplicate check stopped the message: no check/skip row of it.
NotStoppedAsDuplicate(m) ==
    \A i \in ActionRows(m, "check") : tns_actions[i].outcome # "skip"

\* C16: a dry run sends no request to the registry, and a handled alert that
\* passes the filter and both duplicate layers has a submit row with outcome
\* skip and detail dry_run.
C16_DryRunSendsNothingAndLogsSkip ==
    \A p \in Procs :
        dry_run[p]
            => /\ probe_posts[p] = 0
               /\ LET m == Val(cur[p])
                  IN (Handled(p) /\ PassesFilter(m) /\ NotStoppedAsDuplicate(m))
                         => \E i \in ActionRows(m, "submit") :
                                /\ tns_actions[i].outcome = "skip"
                                /\ tns_actions[i].detail = "dry_run"

\* C17: within one run of a process, requests of endpoint discovery are sent
\* in one step only, the step that leaves startup, and startup is entered
\* only when the process is started; from then on, through every poll and
\* every message handled, the cached submit URL and the number of requests
\* sent to the registry stay what they were.
C17_ProbeOnceThenCached ==
    [][\A p \in Procs :
          /\ probe_posts'[p] > probe_posts[p]
                 => (pc[p] = "startup" /\ pc'[p] = "connect")
          /\ (pc[p] # "startup" /\ pc'[p] = "startup") => pc[p] = "stopped"
          /\ pc[p] \in {"connect", "poll", "received"}
                 => /\ submit_url'[p] = submit_url[p]
                    /\ probe_posts'[p] = probe_posts[p]]_vars

\* C17 witness: a process that probed at startup, found a submit URL, has
\* handled a message and is polling again with that URL still cached.
C17_Witness ==
    \E p \in Procs :
        /\ Handled(p)
        /\ ~dry_run[p] /\ enabled[p]
        /\ submit_url[p] = Some(DEFAULT_ENDPOINT_CANDIDATES[2])
        /\ probe_posts[p] = 2 + Len(DEFAULT_STATUS_CANDIDATES)

\* C18: in a run whose probe found no submit URL, a handled alert that passes
\* the filter and both duplicate layers has a submit row with outcome skip
\* and a detail other than dry_run.
C18_ProbeFailureLogsSkip ==
    \A p \in Procs :
        LET m == Val(cur[p])
        IN (/\ Handled(p)
            /\ ~dry_run[p] /\ enabled[p] /\ submit_url[p] = None
            /\ PassesFilter(m) /\ NotStoppedAsDuplicate(m))
               => \E i \in ActionRows(m, "submit") :
                      /\ tns_actions[i].outcome = "skip"
                      /\ tns_actions[i].detail # "dry_run"

\* C19: a run without credentials sends no request to the registry, and a
\* handled alert that normalizes has its decision in the store.
C19_DisabledSkipsRegistryKeepsAudit ==
    \A p \in Procs :
        ~enabled[p]
            => /\ probe_posts[p] = 0
               /\ LET m == Val(cur[p])
                  IN (Handled(p) /\ WellFormed(m))
                         => \E i \in DecisionRows(m) :
                                (decisions[i].passed = 1) <=> Decision(m).ok

\* C20: the orchestrator drops a message at the normalization step only when
\* the message is malformed (normalize applied to the alert fails), and the
\* step writes nothing to the store.
C20_OnlyMalformedSkipped ==
    [][\A p \in Procs :
          NormalizeFailed(p)
              => /\ ~WellFormed(Val(cur[p]))
                 /\ UNCHANGED storeVars]_vars

(***************************************************************************)
(* The normalizer's contract, stated apart from normalize.                 *)
(***************************************************************************)
\* normalize has returned a NormalizedAlert.
NormReturned ==
    /\ h_phase \in {"normalized", "done"}
    /\ h_call.op = "normalize"
    /\ ~Val(h_ret).raised

\* The positions of the history entries that qualify as a non-detection
\* before the current observation.
Qualifying(alert) ==
    {i \in 1..Len(alert.prv_candidates) :
        /\ alert.prv_candidates[i].candid = None
        /\ alert.prv_candidates[i].jd # None
        /\ Val(alert.prv_candidates[i].jd) < Val(Val(alert.candidate).jd)}

\* C24: the non-detection fields of a NormalizedAlert are those of a history
\* entry that has no observation identifier and a time strictly below the
\* current one, and whose time is the greatest among all such entries; when
\* no entry qualifies the three non-detection fields are absent.
C24_LastNondetIsLatestQualifying ==
    NormReturned
        => LET na == Val(h_ret).value
               prv == h_call.alert.prv_candidates
               q == Qualifying(h_call.alert)
           IN IF q = {}
              THEN /\ na.last_nondet_jd = None
                   /\ na.last_nondet_lim = None
                   /\ na.delta_mag_from_nondet = None
              ELSE \E i \in q :
                      /\ \A j \in q : Val(prv[j].jd) <= Val(prv[i].jd)
                      /\ na.last_nondet_jd = prv[i].jd
                      /\ na.last_nondet_lim = prv[i].diffmaglim

\* C24 witness: a history of two non-detections, 0.5 and 0.2 days before the
\* current observation in that order, normalized to the later one.
C24_Witness ==
    /\ NormReturned
    /\ Len(h_call.alert.prv_candidates) = 2
    /\ Qualifying(h_call.alert) = {1, 2}
    /\ h_call.alert.prv_candidates[1].jd = Some(JdNow - 5)
    /\ h_call.alert.prv_candidates[2].jd = Some(JdNow - 2)
    /\ Val(h_ret).value.last_nondet_jd = Some(JdNow - 2)

\* C25: in a NormalizedAlert the magnitude jump is present exactly when the
\* limit of the last non-detection is present and the current magnitude is
\* present (mag is not the NaN that stands for a missing magpsf), and then it
\* is the limit minus the magnitude.
C25_DeltaIffBothOperands ==
    NormReturned
        => LET na == Val(h_ret).value
           IN /\ na.delta_mag_from_nondet # None
                     <=> (na.last_nondet_lim # None /\ ~na.mag.nan)
              /\ na.delta_mag_from_nondet # None
                     => Val(na.delta_mag_from_nondet) = Val(na.last_nondet_lim) - na.mag.v

\* C25 witness: a NormalizedAlert with a limit of 20.0 and a magnitude 2.0
\* brighter in RunCfg's terms, whose jump is their difference.
C25_Witness ==
    /\ NormReturned
    /\ Val(h_ret).value.last_nondet_lim = Some(200)
    /\ Val(h_ret).value.mag = Float(200 - MinDeltaMag - 5)
    /\ Val(h_ret).value.delta_mag_from_nondet = Some(MinDeltaMag + 5)

\* C28: in a NormalizedAlert the time of the last non-detection, when
\* present, is strictly below the time of the observation, and the filter
\* applied to a NormalizedAlert never answers nondet_in_future.
C28_NondetBeforeObservation ==
    NormReturned
        => LET na == Val(h_ret).value
           IN /\ na.last_nondet_jd # None => Val(na.last_nondet_jd) < na.jd
              /\ h_phase = "done" => f_out.reason # "nondet_in_future"

\* C28 witness: a history holding a non-detection dated after the current
\* observation and one dated before it; the NormalizedAlert carries the
\* earlier one and the filter has accepted it.
C28_Witness ==
    /\ NormReturned /\ h_phase = "done"
    /\ \E i \in 1..Len(h_call.alert.prv_candidates) :
           /\ h_call.alert.prv_candidates[i].candid = None
           /\ h_call.alert.prv_candidates[i].jd = Some(JdNow + 1)
    /\ Val(h_ret).value.last_nondet_jd = Some(JdNow - 2)
    /\ f_out.ok

\* C26: a value that equals its configured threshold exactly does not fail
\* the gate of that threshold (scores, distances, catalog magnitude, counts,
\* age of the non-detection, magnitude jump), an age of zero days is not a
\* non-detection in the future, and a primary score that is present and
\* below drb_min fails gate 1 whatever the fallback score is.
C26_ThresholdsInclusive ==
    f_phase = "done"
        => LET a == f_alert
               c == f_cfg.n1
               reason == f_out.reason
               days == a.jd - Val(a.last_nondet_jd)
           IN /\ a.drb = Some(c.drb_min) => reason # "rb_fail"
              /\ (a.drb = None /\ a.rb = Some(c.rb_fallback_min)) => reason # "rb_fail"
              /\ a.ssdistnr = Some(c.min_ssdistnr_arcsec) => reason # "sso_match"
              /\ a.distpsnr1 = Some(c.min_distpsnr1_arcsec) => reason # "ps1_too_close"
              /\ a.srmag1 = Some(c.min_ps1_mag) => reason # "ps1_too_bright"
              /\ a.nmtchps = Some(c.max_nmtchps) => reason # "crowded_field"
              /\ a.ndethist = Some(c.max_ndethist) => reason # "too_many_detections"
              /\ (a.last_nondet_jd # None /\ days = c.max_days_since_nondet)
                     => reason # "nondet_too_old"
              /\ (a.last_nondet_jd # None /\ days = 0) => reason # "nondet_in_future"
              /\ a.delta_mag_from_nondet = Some(c.min_delta_mag_from_nondet)
                     => reason # "delta_mag_small"
              /\ (a.drb # None /\ Val(a.drb) < c.drb_min)
                     => (~f_out.ok /\ reason = "rb_fail")

\* C26 witness: an evaluated alert with its primary score, its three veto
\* fields, its two counts, the age of its non-detection and its magnitude
\* jump all exactly at their thresholds, and accepted.
C26_Witness ==
    /\ f_phase = "done"
    /\ f_alert.drb = Some(DrbMin)
    /\ f_alert.ssdistnr = Some(MinSsdistnr)
    /\ f_alert.distpsnr1 = Some(MinDistpsnr1)
    /\ f_alert.srmag1 = Some(MinPs1Mag)
    /\ f_alert.nmtchps = Some(MaxNmtchps)
    /\ f_alert.ndethist = Some(MaxNdethist)
    /\ f_alert.last_nondet_jd = Some(f_alert.jd - MaxDaysSinceNondet)
    /\ f_alert.delta_mag_from_nondet = Some(MinDeltaMag)
    /\ f_out.ok

(***************************************************************************)
(* The Audit Store's contract.                                             *)
(***************************************************************************)
\* Every row of the table before the step is at its place, unchanged, after.
Kept(before, after) ==
    /\ Len(before) <= Len(after)
    /\ \A i \in 1..Len(before) : after[i] = before[i]

\* C22: no operation of the store updates or deletes a row: across every
\* step each table keeps all the rows it had, unchanged and in place, and a
\* duplicate query leaves the three tables as they were.
C22_AppendOnly ==
    [][/\ Kept(alerts, alerts')
       /\ Kept(decisions, decisions')
       /\ Kept(tns_actions, tns_actions')
       /\ h_call'.op = "was_submitted_or_skipped" => UNCHANGED storeVars]_vars

\* C22 witness: after two registry actions of the same object, candid and
\* kind were logged, a duplicate query was answered and both rows are there.
C22_Witness ==
    /\ h_phase = "db"
    /\ h_call.op = "was_submitted_or_skipped"
    /\ h_ret = Some(TRUE)
    /\ Len(tns_actions) = 2
    /\ tns_actions[1].object_id = tns_actions[2].object_id
    /\ tns_actions[1].candid = tns_actions[2].candid
    /\ tns_actions[1].action = "submit" /\ tns_actions[2].action = "submit"
    /\ tns_actions[1].outcome = "skip" /\ tns_actions[2].outcome = "error"

\* The object has a registry action of kind submit, whatever its outcome.
HasSubmitRow(rows, object_id) ==
    \E i \in 1..Len(rows) :
        /\ rows[i].object_id = object_id
        /\ rows[i].action = "submit"
        /\ rows[i].outcome \in {"skip", "ok", "error"}

C21_StampFailureKeepsDecision ==
    \A p \in Procs :
        (Handled(p) /\ WellFormed(Val(cur[p]))) => DecisionRows(Val(cur[p])) # {}

====
